---------------------------- MODULE Spec2Model ----------------------------
(***************************************************************************)
(* Model of the registration utilities of IRTK's cardiac branch            *)
(* (packages/cardiacbranch/registration/src/irtkUtil.cc):                  *)
(*   irtkPadding (two overloads), GuessResolution (two overloads),         *)
(*   GuessPadding, irtkCalculateNumberOfBins (two overloads), read_line.   *)
(*                                                                         *)
(* Spec    : one call of one image utility on inputs drawn by Init.        *)
(* SpecRL  : a caller that calls read_line repeatedly on one stream, the   *)
(*           body of read_line taken statement by statement.               *)
(* FairRL  : SpecRL, with a started call of read_line always taking its    *)
(*           next statement.                                               *)
(***************************************************************************)
EXTENDS Integers, Sequences, FiniteSets

VARIABLES
    pc,        \* position: "call" / "done" (utilities); "idle", a line of
               \* read_line, "returned" or "exit" (read_line and its caller)
    op,        \* the utility that is called
    args,      \* its scalar arguments
    image0,    \* the images as they were on entry (sequence; single-image calls use image0[1])
    image,     \* the images now
    status0,   \* control point status on entry (irtkPadding with ffd)
    status,    \* control point status now
    ret,       \* the value returned
    file,      \* read_line: the text file the stream reads, [lines, nl]
    in,        \* read_line: the istream, [pos, eofbit, failbit]
    buffer1,   \* read_line: the caller's line buffer (the C string it holds, as runs)
    buffer2,   \* read_line: index into buffer1 (0-based), or NULL
    c,         \* read_line: local c
    lineNo,    \* read_line: index in file.lines of the line the last getline began in
    delivered  \* read_line: the buffers handed to the caller by the calls that returned > 0

vars == <<pc, op, args, image0, image, status0, status, ret,
          file, in, buffer1, buffer2, c, lineNo, delivered>>

utilVars == <<op, args, image0, image, status0, status, ret>>
rlVars   == <<file, in, buffer1, buffer2, c, lineNo, delivered>>

NULL == -1
None == "none"

-----------------------------------------------------------------------------
(* Images: irtkGreyImage, voxels addressed image(x, y, z, t), t = 0 when     *)
(* omitted.                                                                  *)

Index(X, Y, Z, T) == (0..(X-1)) \X (0..(Y-1)) \X (0..(Z-1)) \X (0..(T-1))

Images(shape, values) ==
    { [X |-> shape[1], Y |-> shape[2], Z |-> shape[3], T |-> shape[4], vox |-> v] :
        v \in [Index(shape[1], shape[2], shape[3], shape[4]) -> values] }

Get(img, x, y, z, t) == img.vox[<<x, y, z, t>>]

-----------------------------------------------------------------------------
(* GuessResolution                                                           *)

MaxSize == 3
Sizes == 1..MaxSize

\* variant of GuessResolution3: > for >= (lines 105-106)
GuessResolution3Strict(xsize, ysize, zsize) ==
    IF (xsize > ysize) /\ (xsize > zsize) THEN xsize
    ELSE IF (ysize > xsize) /\ (ysize > zsize) THEN ysize
    ELSE zsize

GuessResolution3(xsize, ysize, zsize) ==
    IF (xsize >= ysize) /\ (xsize >= zsize) THEN xsize
    ELSE IF (ysize >= xsize) /\ (ysize >= zsize) THEN ysize
    ELSE zsize

GuessResolution2(xsize, ysize) ==
    IF xsize > ysize THEN xsize ELSE ysize

-----------------------------------------------------------------------------
(* GuessPadding                                                              *)

MIN_GREY == -32768

MaxCornerGrey == 1
CornerGreys == {MIN_GREY} \cup (0..MaxCornerGrey)
CornerShapes == { <<1, 1, 1, 1>>, <<2, 2, 2, 1>>, <<3, 2, 1, 1>>,
                  <<1, 3, 2, 1>>, <<2, 1, 3, 1>> }

\* variant of GuessPadding: the comparison of line 126 left out
GuessPaddingSkipLast(img) ==
    LET o == Get(img, 0, 0, 0, 0)
        padding ==
            /\ ~ (o # Get(img, img.X - 1, 0, 0, 0))
            /\ ~ (o # Get(img, 0, img.Y - 1, 0, 0))
            /\ ~ (o # Get(img, 0, 0, img.Z - 1, 0))
            /\ ~ (o # Get(img, img.X - 1, img.Y - 1, 0, 0))
            /\ ~ (o # Get(img, 0, img.Y - 1, img.Z - 1, 0))
            /\ ~ (o # Get(img, img.X - 1, 0, img.Z - 1, 0))
    IN  IF padding = FALSE THEN MIN_GREY ELSE o

GuessPadding(img) ==
    LET o == Get(img, 0, 0, 0, 0)
        padding ==
            /\ ~ (o # Get(img, img.X - 1, 0, 0, 0))
            /\ ~ (o # Get(img, 0, img.Y - 1, 0, 0))
            /\ ~ (o # Get(img, 0, 0, img.Z - 1, 0))
            /\ ~ (o # Get(img, img.X - 1, img.Y - 1, 0, 0))
            /\ ~ (o # Get(img, 0, img.Y - 1, img.Z - 1, 0))
            /\ ~ (o # Get(img, img.X - 1, 0, img.Z - 1, 0))
            /\ ~ (o # Get(img, img.X - 1, img.Y - 1, img.Z - 1, 0))
    IN  IF padding = FALSE THEN MIN_GREY ELSE o

-----------------------------------------------------------------------------
(* irtkPadding(image, padding): negative run lengths along x.                *)

MaxPadGrey == 1
PadGreys == (-2)..MaxPadGrey
PadShapes == { <<1, 1, 1, 1>>, <<4, 1, 1, 1>>, <<3, 2, 1, 1>>,
               <<2, 1, 2, 1>>, <<2, 1, 1, 2>> }
Paddings == {-1, 0}

\* n of lines 20-37: the voxels below zero (m, the others, is only printed)
CountPadded(img) == Cardinality({q \in DOMAIN img.vox : img.vox[q] < 0})

\* lines 51-55: the first l >= i of the row with image(l, j, k, t) != -1, or GetX()
RECURSIVE ScanRun(_, _, _, _, _)
ScanRun(img, l, j, k, t) ==
    IF l < img.X /\ ~ (Get(img, l, j, k, t) # -1)
    THEN ScanRun(img, l + 1, j, k, t)
    ELSE l

\* variant of FillRun: the distance counted from the start of the run
FillRunFromStart(img, i, l, j, k, t) ==
    [img EXCEPT !.vox =
        [q \in DOMAIN img.vox |->
            IF q[2] = j /\ q[3] = k /\ q[4] = t /\ q[1] \in i..(l - 1)
            THEN - (q[1] - i + 1)
            ELSE img.vox[q]]]

\* lines 56-58: image(p, j, k, t) = -(l - p) for p = i .. l-1
FillRun(img, i, l, j, k, t) ==
    [img EXCEPT !.vox =
        [q \in DOMAIN img.vox |->
            IF q[2] = j /\ q[3] = k /\ q[4] = t /\ q[1] \in i..(l - 1)
            THEN - (l - q[1])
            ELSE img.vox[q]]]

\* lines 49-61: the loop over i of one row, from i on
RECURSIVE PadRow(_, _, _, _, _)
PadRow(img, i, j, k, t) ==
    IF ~ (i < img.X) THEN img
    ELSE IF Get(img, i, j, k, t) = -1
         THEN LET l == ScanRun(img, i, j, k, t)
              IN  PadRow(FillRun(img, i, l, j, k, t), (l - 1) + 1, j, k, t)
         ELSE PadRow(img, i + 1, j, k, t)

\* lines 46-48: the rows in loop order (t outermost, then k, then j), the n-th on
RECURSIVE PadRows(_, _)
PadRows(img, n) ==
    IF n >= img.T * img.Z * img.Y THEN img
    ELSE LET t == n \div (img.Z * img.Y)
             k == (n \div img.Y) % img.Z
             j == n % img.Y
         IN  PadRows(PadRow(img, 0, j, k, t), n + 1)

irtkPadding(img, padding) ==
    IF CountPadded(img) > 0 THEN PadRows(img, 0) ELSE img

-----------------------------------------------------------------------------
(* irtkCalculateNumberOfBins                                                 *)

MaxBin == 3
MaxMin == 1
MaxMax == 5
BinGreys == (-1)..MaxMax

\* variant of CeilDiv: the quotient rounded down
CeilDivFloor(a, b) == a \div b

\* int(ceil(a/(double)b)) for b > 0: the quotient of two ints is exact enough
\* in double that its ceiling is the ceiling of the rational a/b
CeilDiv(a, b) == - ((- a) \div b)

\* variant of TruncDiv: the quotient rounded to nearest
TruncDivRound(v, w) == IF v >= 0 THEN (2 * v + w) \div (2 * w)
                       ELSE - ((2 * (- v) + w) \div (2 * w))

\* int(v/(double)w): conversion to int truncates toward zero
TruncDiv(v, w) == IF v >= 0 THEN v \div w ELSE - ((- v) \div w)

\* lines 147-149 / 185-187: while (int(ceil(range/(double)width)) > maxbin) width++
RECURSIVE BinWidth(_, _, _)
BinWidth(range, maxbin, width) ==
    IF CeilDiv(range, width) > maxbin
    THEN BinWidth(range, maxbin, width + 1)
    ELSE width

\* variant of Binning: range and nbins as max - min
BinningNoPlusOne(maxbin, min, max) ==
    LET range == max - min
    IN  IF maxbin > 0
        THEN LET width == BinWidth(range, maxbin, 1)
             IN  [width |-> width, nbins |-> CeilDiv(range, width)]
        ELSE [width |-> 1, nbins |-> range]

\* lines 141-158 / 179-196: the width and the number of bins
Binning(maxbin, min, max) ==
    LET range == max - min + 1
    IN  IF maxbin > 0
        THEN LET width == BinWidth(range, maxbin, 1)
             IN  [width |-> width, nbins |-> CeilDiv(range, width)]
        ELSE [width |-> 1, nbins |-> max - min + 1]

\* lines 161-167 / 200-206: every voxel of one image, through the voxel pointer
Rescale(img, width) ==
    [img EXCEPT !.vox =
        [q \in DOMAIN img.vox |->
            IF img.vox[q] > 0 THEN TruncDiv(img.vox[q], width) ELSE img.vox[q]]]

\* irtkCalculateNumberOfBins(irtkGreyImage *, int, int, int)
irtkCalculateNumberOfBins(img, maxbin, min, max) ==
    LET b == Binning(maxbin, min, max)
    IN  [image |-> Rescale(img, b.width), nbins |-> b.nbins]

\* irtkCalculateNumberOfBins(irtkGreyImage **, int, int, int, int)
irtkCalculateNumberOfBinsN(imgs, maxbin, min, max, n) ==
    LET b == Binning(maxbin, min, max)
    IN  [image |-> [j \in DOMAIN imgs |->
                       IF j - 1 < n THEN Rescale(imgs[j], b.width) ELSE imgs[j]],
         nbins |-> b.nbins]

-----------------------------------------------------------------------------
(* irtkPadding(image, padding, ffd): control points without image support.   *)

MaxFfdGrey == 1
FfdGreys == 0..MaxFfdGrey
FfdShapes == { <<2, 1, 1, 2>>, <<1, 2, 1, 1>>, <<1, 1, 2, 2>> }
Lattices == { <<2, 1, 1>>, <<1, 2, 1>>, <<1, 1, 2>> }

ControlPoints(lat) == (0..(lat[1]-1)) \X (0..(lat[2]-1)) \X (0..(lat[3]-1))

\* irtkFreeFormTransformation3D::LatticeToIndex
LatticeToIndex(lat, i, j, k) == k * lat[1] * lat[2] + j * lat[1] + i

\* the boxes BoundingBox can give within an image: x1 <= x2, y1 <= y2, z1 <= z2
Boxes(shape) ==
    { b \in [x1 : 0..(shape[1]-1), x2 : 0..(shape[1]-1),
             y1 : 0..(shape[2]-1), y2 : 0..(shape[2]-1),
             z1 : 0..(shape[3]-1), z2 : 0..(shape[3]-1)] :
        b.x1 <= b.x2 /\ b.y1 <= b.y2 /\ b.z1 <= b.z2 }

\* irtkFreeFormTransformation3D::BoundingBox(&image, index, x1, y1, z1, x2, y2, z2)
BoundingBox(boxes, index) == boxes[index]

InBox(b, T) ==
    { q \in (b.x1..b.x2) \X (b.y1..b.y2) \X (b.z1..b.z2) \X (0..(T-1)) : TRUE }

\* variant of Ok: >= for > (line 88)
OkInclusive(img, padding, b) ==
    \E q \in InBox(b, img.T) : img.vox[q] >= padding

\* lines 83-94: ok, True when a voxel of the box is above padding in some frame
Ok(img, padding, b) ==
    \E q \in InBox(b, img.T) : img.vox[q] > padding

\* lines 74-100: the status of every control point after the loops
irtkPaddingFFD(img, padding, lat, boxes, st) ==
    [p \in ControlPoints(lat) |->
        LET index == LatticeToIndex(lat, p[1], p[2], p[3])
            b == BoundingBox(boxes, index)
        IN  IF Ok(img, padding, b) = FALSE THEN "_Passive" ELSE st[p]]

-----------------------------------------------------------------------------
(* The calls Init can draw.                                                  *)

InitGuessResolution3 ==
    /\ op = "GuessResolution3"
    /\ args \in [xsize : Sizes, ysize : Sizes, zsize : Sizes]
    /\ image0 = <<>>
    /\ status0 = <<>>

InitGuessResolution2 ==
    /\ op = "GuessResolution2"
    /\ args \in [xsize : Sizes, ysize : Sizes]
    /\ image0 = <<>>
    /\ status0 = <<>>

InitGuessPadding ==
    /\ op = "GuessPadding"
    /\ args = <<>>
    /\ \E shape \in CornerShapes : \E img \in Images(shape, CornerGreys) :
          image0 = <<img>>
    /\ status0 = <<>>

InitPadding ==
    /\ op = "irtkPadding"
    /\ args \in [padding : Paddings]
    /\ \E shape \in PadShapes : \E img \in Images(shape, PadGreys) :
          image0 = <<img>>
    /\ status0 = <<>>

InitPaddingFFD ==
    /\ op = "irtkPaddingFFD"
    /\ \E shape \in FfdShapes, lat \in Lattices :
          /\ \E img \in Images(shape, FfdGreys) : image0 = <<img>>
          /\ args \in [padding : FfdGreys, ffd : {lat},
                       boxes : [0..(lat[1] * lat[2] * lat[3] - 1) -> Boxes(shape)]]
          /\ status0 \in [ControlPoints(lat) -> {"_Active", "_Passive"}]

BinParameters == [maxbin : (-1)..MaxBin, min : 0..MaxMin, max : 0..MaxMax]

InitNumberOfBins ==
    /\ op = "irtkCalculateNumberOfBins"
    /\ args \in BinParameters
    /\ \E img \in Images(<<2, 1, 1, 1>>, BinGreys) : image0 = <<img>>
    /\ status0 = <<>>

\* the arrays of images: none, one, two with n = 1 (the second is not in the
\* range the call covers), two with n = 2
InitNumberOfBinsN ==
    /\ op = "irtkCalculateNumberOfBinsN"
    /\ \E n \in 0..2 :
          /\ args \in [maxbin : (-1)..MaxBin, min : 0..MaxMin, max : 0..MaxMax, n : {n}]
          /\ \/ n = 0 /\ image0 = <<>>
             \/ n = 1 /\ \E a \in Images(<<1, 1, 1, 1>>, BinGreys) :
                            image0 = <<a, [a EXCEPT !.vox[<<0, 0, 0, 0>>] = MaxMax]>>
             \/ n = 1 /\ \E a \in Images(<<1, 1, 1, 1>>, BinGreys) : image0 = <<a>>
             \/ n = 2 /\ \E a \in Images(<<1, 1, 1, 1>>, BinGreys),
                            b \in Images(<<1, 2, 1, 1>>, BinGreys) : image0 = <<a, b>>
    /\ status0 = <<>>

RLIdle ==
    /\ file = None
    /\ in = None
    /\ buffer1 = <<>>
    /\ buffer2 = NULL
    /\ c = 0
    /\ lineNo = 0
    /\ delivered = <<>>

Init ==
    /\ pc = "call"
    /\ \/ InitGuessResolution3
       \/ InitGuessResolution2
       \/ InitGuessPadding
       \/ InitPadding
       \/ InitPaddingFFD
       \/ InitNumberOfBins
       \/ InitNumberOfBinsN
    /\ image = image0
    /\ status = status0
    /\ ret = None
    /\ RLIdle

-----------------------------------------------------------------------------
(* One action per utility: the whole call.                                   *)

Return(v) ==
    /\ pc' = "done"
    /\ ret' = v
    /\ UNCHANGED <<op, args, image0, status0>>
    /\ UNCHANGED rlVars

CallGuessResolution3 ==
    /\ pc = "call" /\ op = "GuessResolution3"
    /\ Return(GuessResolution3(args.xsize, args.ysize, args.zsize))
    /\ UNCHANGED <<image, status>>

CallGuessResolution2 ==
    /\ pc = "call" /\ op = "GuessResolution2"
    /\ Return(GuessResolution2(args.xsize, args.ysize))
    /\ UNCHANGED <<image, status>>

CallGuessPadding ==
    /\ pc = "call" /\ op = "GuessPadding"
    /\ Return(GuessPadding(image[1]))
    /\ UNCHANGED <<image, status>>

CallPadding ==
    /\ pc = "call" /\ op = "irtkPadding"
    /\ image' = <<irtkPadding(image[1], args.padding)>>
    /\ Return(None)
    /\ UNCHANGED status

CallPaddingFFD ==
    /\ pc = "call" /\ op = "irtkPaddingFFD"
    /\ status' = irtkPaddingFFD(image[1], args.padding, args.ffd, args.boxes, status)
    /\ Return(None)
    /\ UNCHANGED image

CallNumberOfBins ==
    /\ pc = "call" /\ op = "irtkCalculateNumberOfBins"
    /\ LET r == irtkCalculateNumberOfBins(image[1], args.maxbin, args.min, args.max)
       IN  /\ image' = <<r.image>>
           /\ Return(r.nbins)
    /\ UNCHANGED status

CallNumberOfBinsN ==
    /\ pc = "call" /\ op = "irtkCalculateNumberOfBinsN"
    /\ LET r == irtkCalculateNumberOfBinsN(image, args.maxbin, args.min, args.max, args.n)
       IN  /\ image' = r.image
           /\ Return(r.nbins)
    /\ UNCHANGED status

Next ==
    \/ CallGuessResolution3
    \/ CallGuessResolution2
    \/ CallGuessPadding
    \/ CallPadding
    \/ CallPaddingFFD
    \/ CallNumberOfBins
    \/ CallNumberOfBinsN

Spec == Init /\ [][Next]_vars

-----------------------------------------------------------------------------
(* read_line(istream &in, char *buffer1, char *&buffer2).  Characters are    *)
(* their ASCII codes; the files hold no NUL.  A string is kept as its runs:  *)
(* a sequence of <<character, count>>, so that a line of 255 characters is   *)
(* three runs; the operations below are those of the characters.             *)

BufSize == 255          \* in.getline(buffer1, 255)
NL    == 10
HT    == 9
CR    == 13
SPACE == 32
HASH  == 35
EQ    == 61
NUL   == 0

MaxLines == 2

\* a literal, one run per character, and n filler characters 'x'
Str(s) == [i \in 1..Len(s) |-> <<s[i], 1>>]
Filler(n) == << <<120, n>> >>

\* the lines of the parameter files: empty, comment, carriage return, Key = Value
\* forms, a line without '=', and lines at and over the limit of getline
FileLines ==
    { <<>>,
      Str(<<HASH, 99>>),
      Str(<<CR>>),
      Str(<<97, EQ, 49>>),
      Str(<<97, SPACE, EQ, SPACE, HT, 49, SPACE>>),
      Str(<<98, EQ>>),
      Str(<<97>>),
      Str(<<97, EQ>>) \o Filler(BufSize - 3),
      Str(<<97, EQ>>) \o Filler(BufSize - 2),
      Filler(BufSize - 1) \o Str(<<EQ, 49>>),
      Str(<<HASH>>) \o Filler(BufSize - 1) }

\* the number of characters in the first j runs
RECURSIVE Upto(_, _)
Upto(r, j) == IF j = 0 THEN 0 ELSE r[j][2] + Upto(r, j - 1)

Length(r) == Upto(r, Len(r))

Least(S) == CHOOSE m \in S : \A x \in S : m <= x

Smaller(a, b) == IF a < b THEN a ELSE b
Larger(a, b) == IF a < b THEN b ELSE a

\* s[i] of a C string (0-based), the terminating NUL included
CharAt(s, i) ==
    IF i < Length(s)
    THEN s[CHOOSE j \in 1..Len(s) : Upto(s, j - 1) <= i /\ i < Upto(s, j)][1]
    ELSE NUL

NonEmptyRun(run) == run[2] > 0

\* the characters at positions from .. to - 1 (0-based)
Sub(r, from, to) ==
    SelectSeq([j \in 1..Len(r) |->
                  <<r[j][1], Smaller(Upto(r, j), to) - Larger(Upto(r, j - 1), from)>>],
              NonEmptyRun)

\* the position of the first ch at or after position from, or NULL
Find(r, ch, from) ==
    LET hits == {j \in 1..Len(r) : r[j][1] = ch /\ Upto(r, j) > from}
    IN  IF hits = {} THEN NULL
        ELSE Least({Larger(Upto(r, j - 1), from) : j \in hits})

IsNL(run) == run[1] = NL

RECURSIVE Join(_)
Join(lines) ==
    IF Len(lines) = 0 THEN <<>>
    ELSE IF Len(lines) = 1 THEN lines[1]
    ELSE lines[1] \o Str(<<NL>>) \o Join(Tail(lines))

\* the characters of a file: its lines, a newline between them, and one after
\* the last line when the file ends with a newline
Data(f) == IF f.nl THEN Join(f.lines) \o Str(<<NL>>) ELSE Join(f.lines)

Files ==
    { f \in [lines : UNION { [1..n -> FileLines] : n \in 0..MaxLines }, nl : BOOLEAN] :
        f.nl => Len(f.lines) > 0 }

\* the number of characters from position p on that precede the next newline
UpToNL(data, p) ==
    LET nl == Find(data, NL, p)
    IN  (IF nl = NULL THEN Length(data) ELSE nl) - p

\* the number of the line that begins at or holds position p
LineAt(data, p) == 1 + Length(SelectSeq(Sub(data, 0, p), IsNL))

\* istream::getline(s, n): the stream after the call and the C string stored.
\* A stream that is not good extracts nothing, stores the empty string and sets
\* failbit.  Otherwise characters are stored until end of file (eofbit), a
\* newline (extracted, not stored) or n - 1 stored characters (failbit), tested
\* in this order; failbit is also set when nothing was extracted.
getline(stream, data, n) ==
    IF stream.eofbit \/ stream.failbit
    THEN [in |-> [stream EXCEPT !.failbit = TRUE], s |-> <<>>]
    ELSE LET k == UpToNL(data, stream.pos)
             atEnd == stream.pos + k >= Length(data)
         IN  IF k > n - 1
             THEN [in |-> [stream EXCEPT !.pos = @ + (n - 1), !.failbit = TRUE],
                   s  |-> Sub(data, stream.pos, stream.pos + n - 1)]
             ELSE IF atEnd
             THEN [in |-> [stream EXCEPT !.pos = @ + k, !.eofbit = TRUE,
                                         !.failbit = (k = 0)],
                   s  |-> Sub(data, stream.pos, stream.pos + k)]
             ELSE [in |-> [stream EXCEPT !.pos = @ + k + 1],
                   s  |-> Sub(data, stream.pos, stream.pos + k)]

strlen(s) == Length(s)

\* strchr(s, ch): the index of the first ch, or NULL
strchr(s, ch) == Find(s, ch, 0)

\* lines 227-229: do { buffer2++; } while (*buffer2 == ' ' || *buffer2 == '\t'),
\* after the increment
RECURSIVE SkipBlanks(_, _)
SkipBlanks(s, i) ==
    IF CharAt(s, i) = SPACE \/ CharAt(s, i) = HT THEN SkipBlanks(s, i + 1) ELSE i

UtilIdle ==
    /\ op = "read_line"
    /\ args = <<>>
    /\ image0 = <<>>
    /\ image = <<>>
    /\ status0 = <<>>
    /\ status = <<>>
    /\ ret = None

InitRL ==
    /\ pc = "idle"
    /\ UtilIdle
    /\ file \in Files
    /\ in = [pos |-> 0, eofbit |-> FALSE, failbit |-> FALSE]
    /\ buffer1 = <<>>
    /\ buffer2 = NULL
    /\ c = NUL
    /\ lineNo = 0
    /\ delivered = <<>>

\* the caller calls read_line (again)
CallReadLine ==
    /\ pc \in {"idle", "returned"}
    /\ pc' = "L218"
    /\ UNCHANGED utilVars
    /\ UNCHANGED rlVars

\* line 218: if (in.eof() == True) return 0;
CheckEof ==
    /\ pc = "L218"
    /\ IF in.eofbit = TRUE
       THEN pc' = "returned" /\ ret' = 0
       ELSE pc' = "L219" /\ ret' = ret
    /\ UNCHANGED <<op, args, image0, image, status0, status>>
    /\ UNCHANGED rlVars

\* lines 219-220: in.getline(buffer1, 255); c = buffer1[0];
GetLine ==
    /\ pc = "L219"
    /\ LET g == getline(in, Data(file), BufSize)
       IN  /\ in' = g.in
           /\ buffer1' = g.s
           /\ c' = CharAt(g.s, 0)
    /\ lineNo' = LineAt(Data(file), in.pos)
    /\ pc' = "L221"
    /\ UNCHANGED utilVars
    /\ UNCHANGED <<file, buffer2, delivered>>

\* line 221: while ((strlen(buffer1) == 0) || (c == '#') || (c == 13));
LoopTest ==
    /\ pc = "L221"
    /\ IF (strlen(buffer1) = 0) \/ (c = HASH) \/ (c = CR)
       THEN pc' = "L218"
       ELSE pc' = "L223"
    /\ UNCHANGED utilVars
    /\ UNCHANGED rlVars

\* lines 223-226: buffer2 = strchr(buffer1, '='); NULL: "No valid line format", exit(1)
FindEquals ==
    /\ pc = "L223"
    /\ buffer2' = strchr(buffer1, EQ)
    /\ IF buffer2' = NULL THEN pc' = "exit" ELSE pc' = "L227"
    /\ UNCHANGED utilVars
    /\ UNCHANGED <<file, in, buffer1, c, lineNo, delivered>>

\* lines 227-231: skip the '=' and the blanks after it; return strlen(buffer1);
SkipAndReturn ==
    /\ pc = "L227"
    /\ buffer2' = SkipBlanks(buffer1, buffer2 + 1)
    /\ ret' = strlen(buffer1)
    /\ delivered' = Append(delivered, [buffer1 |-> buffer1, buffer2 |-> buffer2'])
    /\ pc' = "returned"
    /\ UNCHANGED <<op, args, image0, image, status0, status>>
    /\ UNCHANGED <<file, in, buffer1, c, lineNo>>

\* the statements of a started call
ReadLineStep ==
    \/ CheckEof
    \/ GetLine
    \/ LoopTest
    \/ FindEquals
    \/ SkipAndReturn

NextRL ==
    \/ CallReadLine
    \/ ReadLineStep

SpecRL == InitRL /\ [][NextRL]_vars

\* a call that has started runs on: nothing else is scheduled, the code is
\* single-threaded and does not block
FairRL == SpecRL /\ WF_vars(ReadLineStep)

-----------------------------------------------------------------------------
(* Properties.                                                               *)

Done(o) == pc = "done" /\ op = o

Max(S) == CHOOSE m \in S : \A x \in S : m >= x

\* the q with q*b <= a < (q+1)*b, for a >= 0 and b > 0
FloorQ(a, b) == CHOOSE q \in 0..a : q * b <= a /\ (q + 1) * b > a

\* the q with (q-1)*b < a <= q*b, for a >= 1 and b > 0
CeilQ(a, b) == CHOOSE q \in 1..a : (q - 1) * b < a /\ q * b >= a

Corners(img) == {0, img.X - 1} \X {0, img.Y - 1} \X {0, img.Z - 1} \X {0}

CornersEqual(img) == \A p, q \in Corners(img) : img.vox[p] = img.vox[q]

\* C1 as stated: GuessPadding returns the intensity of voxel (0,0,0) if and
\* only if all 8 corner voxels hold the same intensity, and returns MIN_GREY in
\* every other case; the image is not modified.
C1_Original ==
    Done("GuessPadding") =>
        /\ (ret = Get(image0[1], 0, 0, 0, 0)) <=> CornersEqual(image0[1])
        /\ ~ CornersEqual(image0[1]) => ret = MIN_GREY
        /\ image = image0

\* C1 (amended): GuessPadding returns the intensity of voxel (0,0,0) if all 8
\* corner voxels hold the same intensity and MIN_GREY otherwise (which is the
\* intensity of voxel (0,0,0) too when that voxel holds MIN_GREY); the image is
\* not modified.
C1_GuessPadding ==
    Done("GuessPadding") =>
        /\ CornersEqual(image0[1]) => ret = Get(image0[1], 0, 0, 0, 0)
        /\ ~ CornersEqual(image0[1]) => ret = MIN_GREY
        /\ image = image0

C1_Witness ==
    /\ Done("GuessPadding")
    /\ image0[1].X = 2 /\ image0[1].Y = 2 /\ image0[1].Z = 2
    /\ \A q \in Corners(image0[1]) \ {<<1, 1, 1, 0>>} : image0[1].vox[q] = 1
    /\ Get(image0[1], 1, 1, 1, 0) = 0
    /\ ret = MIN_GREY

\* C5: GuessResolution(sx, sy, sz) returns the maximum of its three arguments,
\* ties included, GuessResolution(sx, sy) the maximum of its two; the result is
\* one of the arguments.
C5_GuessResolution ==
    /\ Done("GuessResolution3") =>
          /\ ret = Max({args.xsize, args.ysize, args.zsize})
          /\ ret \in {args.xsize, args.ysize, args.zsize}
    /\ Done("GuessResolution2") =>
          /\ ret = Max({args.xsize, args.ysize})
          /\ ret \in {args.xsize, args.ysize}

C5_Witness ==
    /\ Done("GuessResolution3")
    /\ args.xsize = args.ysize /\ args.zsize < args.xsize
    /\ ret = args.xsize

BinCall == pc = "done" /\ op \in {"irtkCalculateNumberOfBins", "irtkCalculateNumberOfBinsN"}

\* the images the call rescales: the one image, or the first n of the array
Rescaled == IF op = "irtkCalculateNumberOfBinsN" THEN 1..args.n ELSE {1}

\* the smallest width >= 1 with ceil(range/width) <= maxbin, for range >= 1, maxbin >= 1
SmallestWidth(range, maxbin) ==
    CHOOSE w \in 1..range :
        /\ CeilQ(range, w) <= maxbin
        /\ \A u \in 1..(w - 1) : CeilQ(range, u) > maxbin

\* C2: for maxbin > 0 and min <= max, both overloads of
\* irtkCalculateNumberOfBins return a bin count <= maxbin that equals
\* ceil((max-min+1)/width), width the smallest integer >= 1 with
\* ceil((max-min+1)/width) <= maxbin, and every voxel value they rescale (the
\* positive ones) becomes floor(original/width).
C2_BinsBounded ==
    (BinCall /\ args.maxbin > 0 /\ args.min <= args.max) =>
        LET range == args.max - args.min + 1
            width == SmallestWidth(range, args.maxbin)
        IN  /\ ret <= args.maxbin
            /\ ret = CeilQ(range, width)
            /\ \A j \in Rescaled : \A q \in DOMAIN image0[j].vox :
                  image0[j].vox[q] > 0 =>
                      image[j].vox[q] = FloorQ(image0[j].vox[q], width)

C2_Witness ==
    /\ BinCall /\ op = "irtkCalculateNumberOfBinsN"
    /\ args.maxbin = 2 /\ args.min = 1 /\ args.max = 5 /\ args.n = 2
    /\ ret = 2
    /\ Get(image0[2], 0, 1, 0, 0) = 5 /\ Get(image[2], 0, 1, 0, 0) = 1
    /\ Get(image0[1], 0, 0, 0, 0) = 3 /\ Get(image[1], 0, 0, 0, 0) = 1

\* C3: with maxbin = 0 both overloads return exactly max-min+1 and leave every
\* voxel value, positive or not, as it was.
C3_NoBinLimit ==
    (BinCall /\ args.maxbin = 0) =>
        /\ ret = args.max - args.min + 1
        /\ image = image0

C3_Witness ==
    /\ BinCall /\ op = "irtkCalculateNumberOfBins"
    /\ args.maxbin = 0 /\ args.min = 1 /\ args.max = 4
    /\ ret = 4
    /\ Get(image0[1], 0, 0, 0, 0) = 5 /\ Get(image[1], 0, 0, 0, 0) = 5
    /\ Get(image0[1], 1, 0, 0, 0) = -1 /\ Get(image[1], 1, 0, 0, 0) = -1

\* C9: for maxbin >= 0, if every voxel value v of the input satisfies
\* v <= max - min, then after the call every positive voxel value lies in
\* 0..nbins-1, nbins the bin count returned.
C9_ValidIndex ==
    (/\ BinCall /\ args.maxbin >= 0
     /\ \A j \in Rescaled : \A q \in DOMAIN image0[j].vox :
           image0[j].vox[q] <= args.max - args.min) =>
        \A j \in Rescaled : \A q \in DOMAIN image[j].vox :
            image[j].vox[q] > 0 => image[j].vox[q] \in 0..(ret - 1)

C9_Witness ==
    /\ BinCall /\ op = "irtkCalculateNumberOfBins"
    /\ args.maxbin = 2 /\ args.min = 0 /\ args.max = 4
    /\ \A q \in DOMAIN image0[1].vox : image0[1].vox[q] = 4
    /\ \A q \in DOMAIN image[1].vox : image[1].vox[q] = ret - 1
    /\ ret = 2

\* the box of control point p of the call's lattice
BoxOf(p) == args.boxes[LatticeToIndex(args.ffd, p[1], p[2], p[3])]

\* no voxel inside p's box, in any time frame, is strictly above padding
NoSupport(p) ==
    \A t \in 0..(image0[1].T - 1) :
      \A z \in BoxOf(p).z1..BoxOf(p).z2 :
        \A y \in BoxOf(p).y1..BoxOf(p).y2 :
          \A x \in BoxOf(p).x1..BoxOf(p).x2 :
            Get(image0[1], x, y, z, t) <= args.padding

\* C7: after irtkPadding(image, padding, ffd) a control point is passive by
\* the call exactly when no voxel inside its bounding box, in any time frame,
\* is strictly greater than padding; every other control point keeps the
\* status it had (none is set to active), and the image is not modified.
C7_PassiveControlPoints ==
    Done("irtkPaddingFFD") =>
        /\ \A p \in ControlPoints(args.ffd) :
              status[p] = IF NoSupport(p) THEN "_Passive" ELSE status0[p]
        /\ image = image0

C7_Witness ==
    /\ Done("irtkPaddingFFD")
    /\ args.padding = 0
    /\ image0[1].T = 2
    /\ \E p, r \in ControlPoints(args.ffd) :
          /\ status0[p] = "_Active" /\ status[p] = "_Passive"
          /\ BoxOf(p).x1 = BoxOf(p).x2
          /\ \E q \in InBox(BoxOf(p), image0[1].T) : image0[1].vox[q] = args.padding
          /\ status0[r] = "_Active" /\ status[r] = "_Active"

\* a..b is a maximal run of voxels equal to -1 in row (j, k, t) of img
MaximalRun(img, a, b, j, k, t) ==
    /\ a <= b
    /\ \A p \in a..b : Get(img, p, j, k, t) = -1
    /\ a = 0 \/ Get(img, a - 1, j, k, t) # -1
    /\ b = img.X - 1 \/ Get(img, b + 1, j, k, t) # -1

Sign(v) == IF v < 0 THEN -1 ELSE IF v = 0 THEN 0 ELSE 1

\* C8: after irtkPadding(image, padding), in every row each maximal run a..b
\* of voxels that were -1 holds at index p the value -(b+1-p), so its last
\* voxel stays -1; every voxel that was not -1 is unchanged, and no voxel
\* changes sign.
C8_RunLengths ==
    Done("irtkPadding") =>
        LET old == image0[1]
            new == image[1]
        IN  /\ \A j \in 0..(old.Y - 1), k \in 0..(old.Z - 1), t \in 0..(old.T - 1) :
                 \A a, b \in 0..(old.X - 1) :
                    MaximalRun(old, a, b, j, k, t) =>
                        /\ \A p \in a..b : Get(new, p, j, k, t) = - (b + 1 - p)
                        /\ Get(new, b, j, k, t) = -1
            /\ \A q \in DOMAIN old.vox :
                 /\ old.vox[q] # -1 => new.vox[q] = old.vox[q]
                 /\ Sign(new.vox[q]) = Sign(old.vox[q])
            /\ DOMAIN new.vox = DOMAIN old.vox

C8_Witness ==
    /\ Done("irtkPadding")
    /\ image0[1].X = 4
    /\ Get(image0[1], 0, 0, 0, 0) = -1 /\ Get(image[1], 0, 0, 0, 0) = -1
    /\ Get(image0[1], 1, 0, 0, 0) = -2 /\ Get(image[1], 1, 0, 0, 0) = -2
    /\ Get(image0[1], 2, 0, 0, 0) = -1 /\ Get(image[1], 2, 0, 0, 0) = -2
    /\ Get(image0[1], 3, 0, 0, 0) = -1 /\ Get(image[1], 3, 0, 0, 0) = -1

Returned == pc = "returned"

\* the characters of a string, one by one
RECURSIVE Unpack(_)
Unpack(r) ==
    IF Len(r) = 0 THEN <<>>
    ELSE [i \in 1..r[1][2] |-> r[1][1]] \o Unpack(Tail(r))

HasEquals(line) == \E i \in 1..Len(line) : line[i] = EQ

\* a line read_line is to deliver: not empty, first character neither '#' nor CR
Deliverable(line) == Len(line) > 0 /\ line[1] # HASH /\ line[1] # CR

\* C4 as stated: read_line ends in the fatal exit whenever it reaches a
\* non-empty, non-comment line without '=' (it never returns for such a line),
\* and never for a line that contains '='.
C4_Original ==
    /\ (pc = "L227" \/ (Returned /\ ret > 0)) => HasEquals(Unpack(file.lines[lineNo]))
    /\ pc = "exit" =>
          /\ Deliverable(Unpack(file.lines[lineNo]))
          /\ ~ HasEquals(Unpack(file.lines[lineNo]))

\* the 0-based index of the first character after the first '=' of line that
\* is neither a space nor a tab (the end of the line when there is none)
ValueIndex(line) ==
    LET e == CHOOSE i \in 1..Len(line) :
                line[i] = EQ /\ \A h \in 1..(i - 1) : line[h] # EQ
    IN  CHOOSE v \in e..Len(line) :
            /\ v = Len(line) \/ line[v + 1] \notin {SPACE, HT}
            /\ \A u \in e..(v - 1) : line[u + 1] \in {SPACE, HT}

DeliverableLines ==
    LET lines == [i \in 1..Len(file.lines) |-> Unpack(file.lines[i])]
    IN  SelectSeq(lines, Deliverable)

\* C6 as stated: called repeatedly, read_line delivers exactly the non-empty
\* lines that start with neither '#' nor CR, in stream order: the k-th call
\* that returns a positive value returns the length of the k-th such line, with
\* the line in the buffer and the value pointer at the first character after
\* its first '=' that is neither space nor tab; it returns 0 only with the
\* stream exhausted and every such line delivered.
C6_Original ==
    Returned =>
        LET k == Len(delivered)
        IN  /\ ret > 0 =>
                /\ k <= Len(DeliverableLines)
                /\ Unpack(delivered[k].buffer1) = DeliverableLines[k]
                /\ ret = Len(DeliverableLines[k])
                /\ delivered[k].buffer2 = ValueIndex(DeliverableLines[k])
            /\ ret = 0 =>
                /\ in.pos = Length(Data(file))
                /\ k = Len(DeliverableLines)

\* C10 as stated: every call of read_line on a finite stream terminates, by
\* returning or by the fatal exit, whatever the length of the lines, and so
\* does every later call on the same stream.
C10_Original == (pc = "L218") ~> (pc \in {"returned", "exit"})

=============================================================================
